---- MODULE Spec2Model ----
(***************************************************************************)
(* The endorser of Nimble: Store and EndorserState of                      *)
(* Nimble/src/endorser_state.rs, as a state machine.                       *)
(*                                                                         *)
(* Byte strings are sequences of atoms.  An atom is a triple               *)
(* <<tag, key, body>>: a raw input ("b"), a SHA3-256 digest ("H") of the   *)
(* byte string body, an ed25519 signature ("S") by key pair `key` over the *)
(* byte string body, or the public key ("P") of key pair `key`.  Digests   *)
(* and signatures are therefore injective in what they cover               *)
(* (collision resistance, unforgeability), and never the identity.         *)
(***************************************************************************)
EXTENDS Integers, Sequences, FiniteSets, TLC

VARIABLES
  state,    \* Store.state: the EndorserState [keypair, ledgers, id]
  nkeys,    \* how many key pairs OsRng has generated so far
  call,     \* the last completed call: its request and what it returned
  alive,    \* FALSE once a call has panicked
  ncalls,   \* number of calls made
  signed,   \* history: every (key, handle, tail, signature) an append produced
  past,     \* history: per handle, the tails it held before the current one
  ep,       \* the EndpointState: construction step, id, vs (the VerifierState)
  coord,    \* the coordinator: height of the view ledger, the counters' blocks
  task,     \* per client task: the operation in flight, its locals, its result
  nops,     \* number of client operations and foreign writes started
  faults,   \* history: RPC failures, receipts that do not verify, cancellations
  acked     \* history: the new_counter and increment_counter calls that returned Ok

\* The endorser's variables and the client's.
evars == <<state, nkeys, call, alive, ncalls, signed, past>>

cvars == <<ep, coord, task, nops, faults, acked>>

vars == <<state, nkeys, call, alive, ncalls, signed, past,
          ep, coord, task, nops, faults, acked>>

\* The number of calls of one run.
MaxCalls == 5

------------------------------------------------------------------------------
(* Bytes, digests, signatures *)

Bytes(n) == << <<"b", n, <<>>>> >>

NoBytes == <<>>

\* helper::hash: SHA3-256 of a byte string.
hash(bytes) == << <<"H", 0, bytes>> >>

\* helper::concat_bytes
concat_bytes(first, second) == first \o second

\* Keypair::sign (ed25519 is deterministic) and Signature::to_bytes
Sign(keypair, message) == << <<"S", keypair, message>> >>

\* Keypair::public and PublicKey::to_bytes
Public(keypair) == << <<"P", keypair, <<>>>> >>

\* The inputs of the calls.
Handles == {Bytes(1), hash(Bytes(2))}
Blocks == {Bytes(11), Bytes(12)}
Nonces == {Bytes(21), Bytes(22)}
\* AppendReq.expected_height as the caller sends it.
ExpectedHeights == {1, 2}

------------------------------------------------------------------------------
(* Result<T, EndorserError>, and a panic (unwrap or expect on an Err) *)

Ok(value) == [status |-> "Ok", err |-> "", ret |-> value]

Err(error) == [status |-> "Err", err |-> error, ret |-> <<>>]

Panic(error) == [status |-> "panic", err |-> error, ret |-> <<>>]

\* HashMap::new
EmptyMap == [h \in {} |-> NoBytes]

\* An insert that forgets every other key.
Insert_alone(map, key, value) == [k \in {key} |-> value]

\* HashMap::insert: adds the key or overwrites its value.
Insert(map, key, value) ==
  [k \in DOMAIN map \cup {key} |-> IF k = key THEN value ELSE map[k]]

------------------------------------------------------------------------------
(* EndorserIdentity and EndorserState *)

EndorserIdentity_new(public_key, signature) ==
  [pubkey |-> public_key, sign |-> signature]

\* EndorserState::new signing the empty message instead of the public key.
EndorserState_new_unsigned(keypair) ==
  [keypair |-> keypair,
   ledgers |-> EmptyMap,
   id |-> EndorserIdentity_new(Public(keypair), Sign(keypair, NoBytes))]

\* EndorserState::new with the key pair OsRng generated.
EndorserState_new(keypair) ==
  [keypair |-> keypair,
   ledgers |-> EmptyMap,
   id |-> EndorserIdentity_new(Public(keypair), Sign(keypair, Public(keypair)))]

\* GenesisTail storing the signature itself, not its digest.
GenesisTail_unhashed(sign_handle) == sign_handle

\* The tail a new ledger starts with: the digest of the signature on the handle.
GenesisTail(sign_handle) == hash(sign_handle)

\* EndorserState::create_ledger
create_ledger(self, genesis_block_hash) ==
  LET handle == genesis_block_hash
      sign_handle == Sign(self.keypair, handle)
      sign_hash == GenesisTail(sign_handle)
  IN  [self |-> [self EXCEPT !.ledgers = Insert(@, handle, sign_hash)],
       result |-> Ok(<<handle, sign_handle, Public(self.keypair)>>)]

\* EndorserState::get_handles_in_endorser_state
get_handles_in_endorser_state(self) ==
  [self |-> self, result |-> Ok(DOMAIN self.ledgers)]

\* EndorserState::get_tail
get_tail(self, endorser_handle) ==
  IF endorser_handle \in DOMAIN self.ledgers
  THEN [self |-> self, result |-> Ok(self.ledgers[endorser_handle])]
  ELSE [self |-> self, result |-> Err("StateCreationError")]

\* TailHash with the two halves concatenated in the wrong order.
TailHash_swapped(previous_hash, current_hash) ==
  hash(concat_bytes(current_hash, previous_hash))

\* The new tail of an append: the digest of previous tail || appended hash.
TailHash(previous_hash, current_hash) ==
  hash(concat_bytes(previous_hash, current_hash))

\* EndorserState::append_ledger
append_ledger(self, endorser_handle, updated_hash) ==
  IF endorser_handle \in DOMAIN self.ledgers
  THEN LET previous_hash == self.ledgers[endorser_handle]
           tail_hash == TailHash(previous_hash, updated_hash)
           signature == Sign(self.keypair, tail_hash)
       IN  [self |-> [self EXCEPT !.ledgers = Insert(@, endorser_handle, tail_hash)],
            result |-> Ok(<<previous_hash, tail_hash, signature>>)]
  ELSE [self |-> self, result |-> Err("StateCreationError")]

\* EndorserState::get_endorser_key_info_from_endorser_state
get_endorser_key_info_from_endorser_state(self) ==
  [self |-> self, result |-> Ok(<<self.id.pubkey, self.id.sign>>)]

------------------------------------------------------------------------------
(* Store: each operator takes Store.state and gives the new Store.state *)

\* Store::create_new_endorser_state with the key pair OsRng generated.
create_new_endorser_state(self, keypair) ==
  LET endorser_state == EndorserState_new(keypair)
      identity == endorser_state.id
      data == concat_bytes(identity.pubkey, identity.sign)
      endorser_handle == hash(data)
  IN  [self |-> endorser_state,
       result |-> Ok(<<endorser_handle, identity.pubkey, identity.sign>>)]

\* Store::create_new_ledger_in_endorser_state
create_new_ledger_in_endorser_state(self, coordinator_handle) ==
  LET r == create_ledger(self, coordinator_handle)
  IN  IF r.result.status = "Ok"
      THEN [self |-> r.self,
            result |-> Ok(<<r.result.ret[1], r.result.ret[2],
                            r.self.id.pubkey, r.self.id.sign>>)]
      ELSE [self |-> r.self,
            result |-> Panic("Unable to create a Ledger in EndorserState")]

\* Store::get_all_available_handles
get_all_available_handles(self) ==
  LET r == get_handles_in_endorser_state(self)
  IN  IF r.result.status = "Ok" THEN r ELSE [self |-> self, result |-> Panic("unwrap")]

\* Store::get_endorser_key_information
get_endorser_key_information(self) ==
  get_endorser_key_info_from_endorser_state(self)

\* Store::append_and_update_endorser_state_tail
append_and_update_endorser_state_tail(self, endorsor_handle, updated_data) ==
  LET updated_hash == hash(updated_data)
      r == append_ledger(self, endorsor_handle, updated_hash)
  IN  IF r.result.status = "Ok"
      THEN r
      ELSE [self |-> r.self, result |-> Panic("unwrap")]

\* Store::get_latest_state_for_handle
get_latest_state_for_handle(self, handle, nonce) ==
  LET tail_hash == get_tail(self, handle)
  IN  IF tail_hash.result.status = "Ok"
      THEN LET tail_hash_bytes == tail_hash.result.ret
               concat_result == concat_bytes(tail_hash_bytes, nonce)
               content_to_sign == hash(concat_result)
               endorser_signature == Sign(self.keypair, content_to_sign)
           IN  [self |-> self,
                result |-> Ok(<<nonce, tail_hash_bytes, endorser_signature>>)]
      ELSE [self |-> self, result |-> Err("TailDoesNotMatch")]

------------------------------------------------------------------------------
(* The client endpoint (endpoint/src/lib.rs): data *)

\* Bounds of the client runs: client tasks, operations started, views.
MaxOps == 3
MaxViews == 3
MaxFaults == 1

Tasks == {1, 2}

\* enum MessageType: discriminants in declaration order.
MessageType_NewCounterReq == 0
MessageType_NewCounterResp == 1
MessageType_IncrementCounterReq == 2
MessageType_IncrementCounterResp == 3
MessageType_ReadCounterReq == 4
MessageType_ReadCounterResp == 5

\* u64::to_le_bytes: the 8 little-endian bytes of n.
U64(n) == << <<"u", n, <<>>>> >>

\* NimbleDigest::digest
NimbleDigest_digest(bytes) == << <<"D", 0, bytes>> >>

\* format!("{}.{}...", base64_url::encode(f1), ...) and its digest: the
\* encoding keeps every field apart ('.' is no base64url character).
CanonicalMsg(fields) ==
  NimbleDigest_digest([i \in 1..Len(fields) |-> <<"f", i, fields[i]>>])

\* The key pair of the endpoint (sk, pk) and the key pair of some other writer.
ClientKey == 100
ForeignKey == ClientKey + 1

\* Signature::num_bytes
SignatureNumBytes == 64

\* Vec::len: a signature atom is SignatureNumBytes long, a digest atom 32
\* bytes, any other atom one byte.
RECURSIVE NumBytes(_)
NumBytes(bytes) ==
  IF bytes = <<>> THEN 0
  ELSE (CASE Head(bytes)[1] = "S" -> SignatureNumBytes
          [] Head(bytes)[1] \in {"H", "D"} -> 32
          [] OTHER -> 1) + NumBytes(Tail(bytes))

\* Signature::verify
Verify(signature, key, message) == signature = Sign(key, message)

\* The inputs of the client operations.
ClientHandles == {Bytes(1)}
NewTags == {Bytes(30)}
Tags == {Bytes(31), Bytes(32)}
ClientNonces == {Bytes(21)}
ExpectedCounters == {1, 2}

\* What the receipts of a coordinator response turn out to be.
Qualities == {"good", "InsufficientReceipts"}

\* Block of the view ledger at an index, and its digest (Block::hash).
ViewBlock(index) == Bytes(1000 + index)

BlockHash(block) == NimbleDigest_digest(block)

\* VerifierState::default
VerifierState_default == [group_identity |-> NoBytes, views |-> {}]

\* VerifierState::set_group_identity
set_group_identity(vs, id) == [vs EXCEPT !.group_identity = id]

\* VerifierState::get_view_ledger_height: the highest view installed.
get_view_ledger_height(vs) ==
  IF vs.views = {} THEN 0 ELSE CHOOSE i \in vs.views : \A j \in vs.views : j <= i

\* VerifierState::apply_view_change: installs the view of a view-ledger entry
\* whose receipts (or attestations) verify.
apply_view_change(vs, entry) ==
  IF entry.quality = "good"
  THEN [ok |-> TRUE, vs |-> [vs EXCEPT !.views = @ \cup {entry.index}]]
  ELSE [ok |-> FALSE, vs |-> vs]

\* VerifierState::verify_new_ledger, verify_append, verify_read_latest: the
\* receipts name a view; an unknown view is ViewNotFound, otherwise the
\* receipts decide.
VerifyReceipts(vs, resp) ==
  IF resp.view \notin vs.views THEN "ViewNotFound"
  ELSE IF resp.quality # "good" THEN resp.quality
  ELSE "Ok"

verify_new_ledger(vs, resp) == VerifyReceipts(vs, resp)

verify_append(vs, resp) == VerifyReceipts(vs, resp)

verify_read_latest(vs, resp) == VerifyReceipts(vs, resp)

\* The index EndpointState::new reads the group identity from.
GenesisIndex_tail(height) == height

GenesisIndex(height) == 1

\* The error of an operation whose coordinator call failed.
RpcError(op) ==
  CASE op = "new_counter" -> "FailedToCreateNewCounter"
    [] op = "increment_counter" -> "FailedToIncrementCounter"
    [] OTHER -> "FailedToReadCounter"

\* The error of an operation whose verification failed.
FailedToVerify(op) ==
  CASE op = "new_counter" -> "FailedToVerifyNewCounter"
    [] op = "increment_counter" -> "FailedToVerifyIncrementedCounter"
    [] OTHER -> "FaieldToVerifyReadCounter"

\* The message a writer signs into its block.
WriterMsgType_always_new(counter) == MessageType_NewCounterReq

\* The response types in place of the request types.
WriterMsgType_resp(counter) ==
  IF counter = 0 THEN MessageType_NewCounterResp ELSE MessageType_IncrementCounterResp

WriterMsgType(counter) ==
  IF counter = 0 THEN MessageType_NewCounterReq ELSE MessageType_IncrementCounterReq

WriterMsg(id, handle, counter, tag) ==
  CanonicalMsg(<<U64(WriterMsgType(counter)), id, handle, U64(counter), tag>>)

\* new_counter and increment_counter: the block tag || signature.
RequestBlock(id, handle, counter, tag) ==
  concat_bytes(tag, Sign(ClientKey, WriterMsg(id, handle, counter, tag)))

\* The messages the endpoint signs for its caller.
NewCounterRespMsg(id, handle, tag) ==
  CanonicalMsg(<<U64(MessageType_NewCounterResp), id, handle, U64(0), tag>>)

IncrementCounterRespMsg(id, handle, counter, tag) ==
  CanonicalMsg(<<U64(MessageType_IncrementCounterResp), id, handle, U64(counter), tag>>)

ReadCounterRespMsg_no_nonce(id, handle, counter, tag, nonce) ==
  CanonicalMsg(<<U64(MessageType_ReadCounterResp), id, handle, U64(counter), tag>>)

ReadCounterRespMsg(id, handle, counter, tag, nonce) ==
  CanonicalMsg(<<U64(MessageType_ReadCounterResp), id, handle, U64(counter), tag, nonce>>)

\* The counter an increment sends to the coordinator.
AppendHeight_prev(expected_counter) == expected_counter - 1

AppendHeight(expected_counter) == expected_counter

\* Whether a failed first verification is followed by update_view.
RetryOn_any(error) == TRUE

RetryOn_never(error) == FALSE

RetryOn(error) == error = "ViewNotFound"

\* The lease a task holds after the block of a read guard: the guard is
\* dropped at the end of the block.
ReleaseRead_kept(lease) == lease

ReleaseRead(lease) == "none"

\* The result of an operation whose second verification ended in `res`.
SecondVerifyOk_always(res) == TRUE

SecondVerifyOk(res) == res = "Ok"

\* read_counter after the receipts verified: the block is tag || signature of
\* the writer, and the response is signed.
read_counter_finish(id, handle, nonce, block, counter) ==
  IF NumBytes(block) < SignatureNumBytes
  THEN Err("FaieldToVerifyReadCounter")
  ELSE LET tag == SubSeq(block, 1, Len(block) - 1)
           sig == SubSeq(block, Len(block), Len(block))
           msg == WriterMsg(id, handle, counter, tag)
       IN  IF ~Verify(sig, ClientKey, msg)
           THEN Err("FaieldToVerifyReadCounter")
           ELSE Ok(<<tag, U64(counter),
                     Sign(ClientKey, ReadCounterRespMsg(id, handle, counter, tag, nonce))>>)

\* What an operation returns once its receipts verified.
Verified(id, t) ==
  CASE t.op = "new_counter" ->
         Ok(<<Sign(ClientKey, NewCounterRespMsg(id, t.handle, t.tag))>>)
    [] t.op = "increment_counter" ->
         Ok(<<Sign(ClientKey, IncrementCounterRespMsg(id, t.handle, t.counter, t.tag))>>)
    [] OTHER ->
         read_counter_finish(id, t.handle, t.nonce, t.block, t.resp.height)

NoResp == [view |-> 0, quality |-> "good", height |-> 0]

NoEntry == [index |-> 0, quality |-> "good"]

IdleTask ==
  [pc |-> "idle", op |-> "none", handle |-> NoBytes, tag |-> NoBytes, counter |-> 0,
   nonce |-> NoBytes, block |-> NoBytes, resp |-> NoResp,
   first |-> "none", last |-> "none", nverify |-> 0, nrefresh |-> 0,
   start_height |-> 0, height |-> 0, index |-> 0, entry |-> NoEntry,
   lease |-> "none", views0 |-> {},
   result |-> [status |-> "none", err |-> "", ret |-> <<>>]]

\* Before EndpointState::new: no id, the default VerifierState, a view ledger
\* holding its genesis, no counter.
\* A task that takes no part in a run.
OffTask == [IdleTask EXCEPT !.pc = "off"]

\* EndpointState before new() has run, shared by the tasks in callers.
ClientInit(callers) ==
  /\ ep = [pc |-> "new_id", id |-> NoBytes, vs |-> VerifierState_default,
           index |-> 0]
  /\ coord = [vheight |-> 1, counters |-> [h \in ClientHandles |-> <<>>]]
  /\ task = [t \in Tasks |-> IF t \in callers THEN IdleTask ELSE OffTask]
  /\ nops = 0
  /\ faults = 0
  /\ acked = {}

------------------------------------------------------------------------------
(* The state machine: one action per method *)

Request(op, handle, data, expected_height, nonce) ==
  [op |-> op, handle |-> handle, data |-> data,
   expected_height |-> expected_height, nonce |-> nonce]

IsAppend(op) == op \in {"append_ledger", "append_and_update_endorser_state_tail"}

\* A call completes: the state is what the method left, the caller holds the
\* result, and a panic ends the run.
Complete(req, out) ==
  /\ alive
  /\ ncalls < MaxCalls
  /\ UNCHANGED cvars
  /\ state' = out.self
  /\ call' = [op |-> req.op, handle |-> req.handle, data |-> req.data,
              expected_height |-> req.expected_height, nonce |-> req.nonce,
              status |-> out.result.status, err |-> out.result.err,
              ret |-> out.result.ret]
  /\ alive' = (out.result.status # "panic")
  /\ ncalls' = ncalls + 1
  /\ signed' = IF IsAppend(req.op) /\ out.result.status = "Ok"
               THEN signed \cup {[key |-> state.keypair, handle |-> req.handle,
                                  tail |-> out.result.ret[2],
                                  signature |-> out.result.ret[3]]}
               ELSE signed
  /\ past' = [h \in Handles |->
                IF /\ h \in DOMAIN state.ledgers
                   /\ \/ h \notin DOMAIN out.self.ledgers
                      \/ out.self.ledgers[h] # state.ledgers[h]
                THEN past[h] \cup {state.ledgers[h]}
                ELSE past[h]]

CreateLedger ==
  \E h \in Handles :
    /\ Complete(Request("create_ledger", h, NoBytes, 0, NoBytes),
                create_ledger(state, h))
    /\ UNCHANGED nkeys

GetHandlesInEndorserState ==
  /\ Complete(Request("get_handles_in_endorser_state", NoBytes, NoBytes, 0, NoBytes),
              get_handles_in_endorser_state(state))
  /\ UNCHANGED nkeys

GetTail ==
  \E h \in Handles :
    /\ Complete(Request("get_tail", h, NoBytes, 0, NoBytes), get_tail(state, h))
    /\ UNCHANGED nkeys

AppendLedger ==
  \E h \in Handles, b \in Blocks, eh \in ExpectedHeights :
    /\ Complete(Request("append_ledger", h, b, eh, NoBytes),
                append_ledger(state, h, b))
    /\ UNCHANGED nkeys

GetEndorserKeyInfoFromEndorserState ==
  /\ Complete(Request("get_endorser_key_info_from_endorser_state",
                      NoBytes, NoBytes, 0, NoBytes),
              get_endorser_key_info_from_endorser_state(state))
  /\ UNCHANGED nkeys

CreateNewEndorserState ==
  /\ Complete(Request("create_new_endorser_state", NoBytes, NoBytes, 0, NoBytes),
              create_new_endorser_state(state, nkeys + 1))
  /\ nkeys' = nkeys + 1

CreateNewLedgerInEndorserState ==
  \E h \in Handles :
    /\ Complete(Request("create_new_ledger_in_endorser_state", h, NoBytes, 0, NoBytes),
                create_new_ledger_in_endorser_state(state, h))
    /\ UNCHANGED nkeys

GetAllAvailableHandles ==
  /\ Complete(Request("get_all_available_handles", NoBytes, NoBytes, 0, NoBytes),
              get_all_available_handles(state))
  /\ UNCHANGED nkeys

GetEndorserKeyInformation ==
  /\ Complete(Request("get_endorser_key_information", NoBytes, NoBytes, 0, NoBytes),
              get_endorser_key_information(state))
  /\ UNCHANGED nkeys

AppendAndUpdateEndorserStateTail ==
  \E h \in Handles, b \in Blocks, eh \in ExpectedHeights :
    /\ Complete(Request("append_and_update_endorser_state_tail", h, b, eh, NoBytes),
                append_and_update_endorser_state_tail(state, h, b))
    /\ UNCHANGED nkeys

GetLatestStateForHandle ==
  \E h \in Handles, n \in Nonces :
    /\ Complete(Request("get_latest_state_for_handle", h, NoBytes, 0, n),
                get_latest_state_for_handle(state, h, n))
    /\ UNCHANGED nkeys

\* Store::new: the first key pair, no ledger, no call made yet.
EndorserInit ==
  /\ state = EndorserState_new(1)
  /\ nkeys = 1
  /\ call = [op |-> "new", handle |-> NoBytes, data |-> NoBytes,
             expected_height |-> 0, nonce |-> NoBytes,
             status |-> "Ok", err |-> "", ret |-> <<>>]
  /\ alive = TRUE
  /\ ncalls = 0
  /\ signed = {}
  /\ past = [h \in Handles |-> {}]

\* One caller of the endpoint at a time.
Init ==
  /\ EndorserInit
  /\ ClientInit({1})

\* The tail of the ledger of handle after 2^64 - 1 appends; the chain below it
\* is elided.
ElidedChain(handle) == << <<"e", 0, handle>> >>

\* An endorser with one ledger that has been appended to 2^64 - 1 times.
InitOverflow ==
  /\ state = [EndorserState_new(1) EXCEPT
                !.ledgers = [h \in {Bytes(1)} |-> ElidedChain(h)]]
  /\ nkeys = 1
  /\ call = [op |-> "new", handle |-> NoBytes, data |-> NoBytes,
             expected_height |-> 0, nonce |-> NoBytes,
             status |-> "Ok", err |-> "", ret |-> <<>>]
  /\ alive = TRUE
  /\ ncalls = 0
  /\ signed = {}
  /\ past = [h \in Handles |-> {}]
  /\ ClientInit({1})

\* Both tasks call the endpoint.
InitConcurrent ==
  /\ EndorserInit
  /\ ClientInit(Tasks)

Next ==
  \/ CreateLedger
  \/ GetHandlesInEndorserState
  \/ GetTail
  \/ AppendLedger
  \/ GetEndorserKeyInfoFromEndorserState
  \/ CreateNewEndorserState
  \/ CreateNewLedgerInEndorserState
  \/ GetAllAvailableHandles
  \/ GetEndorserKeyInformation
  \/ AppendAndUpdateEndorserStateTail
  \/ GetLatestStateForHandle

Spec == Init /\ [][Next]_vars

SpecOverflow == InitOverflow /\ [][Next]_vars

------------------------------------------------------------------------------
(* Properties *)

\* The height a tail encodes: the number of blocks chained onto the genesis
\* tail (the stored entry is the tail alone).
RECURSIVE ChainHeight(_)
ChainHeight(tail) ==
  LET body == tail[1][3]
  IN  IF Len(body) >= 2 THEN 1 + ChainHeight(SubSeq(body, 1, 1)) ELSE 0

IsCreate(op) == op \in {"create_ledger", "create_new_ledger_in_endorser_state"}

IsGetIdentity(op) ==
  op \in {"get_endorser_key_info_from_endorser_state", "get_endorser_key_information"}

\* The block digest an append chains: append_ledger is given it, the Store
\* method digests the data it is given.
BlockDigest(c) == IF c.op = "append_ledger" THEN c.data ELSE hash(c.data)

\* C1: for one key pair and one (handle, height), the appends ever signed
\* carry one tail and one signature only.
C1_OneTailPerHeight ==
  \A r1, r2 \in signed :
    (/\ r1.key = r2.key
     /\ r1.handle = r2.handle
     /\ ChainHeight(r1.tail) = ChainHeight(r2.tail))
    => (r1.tail = r2.tail /\ r1.signature = r2.signature)

\* C2: an append on an existing handle whose expected_height is not the
\* current height + 1 fails with InvalidHeight, returns no signature and leaves
\* the ledger map as it was.
C2_AppendNeedsNextHeight ==
  [][(/\ IsAppend(call'.op)
      /\ call'.handle \in DOMAIN state.ledgers
      /\ call'.expected_height # ChainHeight(state.ledgers[call'.handle]) + 1)
     => (/\ call'.status = "Err"
         /\ call'.err = "InvalidHeight"
         /\ call'.ret = <<>>
         /\ state'.ledgers = state.ledgers)]_vars

\* C3: creating a ledger whose handle is already in the map fails with
\* LedgerExists, returns no signature and leaves the map as it was.
C3_CreateExistingFails ==
  [][(IsCreate(call'.op) /\ call'.handle \in DOMAIN state.ledgers)
     => (/\ call'.status = "Err"
         /\ call'.err = "LedgerExists"
         /\ call'.ret = <<>>
         /\ state'.ledgers = state.ledgers)]_vars

\* C4: no rollback: a handle that was present is present, and its stored tail
\* is none of the tails it held before.
C4_NoRollback ==
  \A h \in Handles :
    /\ past[h] # {} => h \in DOMAIN state.ledgers
    /\ h \in DOMAIN state.ledgers => state.ledgers[h] \notin past[h]

\* A tail is the genesis tail or the digest of an earlier chain || a block digest.
RECURSIVE IsChain(_, _)
IsChain(tail, genesis) ==
  \/ tail = genesis
  \/ /\ tail[1][1] = "H"
     /\ Len(tail[1][3]) = 2
     /\ IsChain(SubSeq(tail[1][3], 1, 1), genesis)

\* C5: a successful append returns the stored tail as the previous state,
\* returns and stores H(tail_prev || block_digest), which get_tail then
\* returns; every stored tail is such a chain over H(Signature(handle)).
C5_AppendChains ==
  /\ [][(IsAppend(call'.op) /\ call'.status = "Ok")
        => (/\ call'.handle \in DOMAIN state.ledgers
            /\ LET tail_prev == state.ledgers[call'.handle]
                   tail_new == hash(concat_bytes(tail_prev, BlockDigest(call')))
               IN  /\ call'.ret[1] = tail_prev
                   /\ call'.ret[2] = tail_new
                   /\ state'.ledgers[call'.handle] = tail_new
                   /\ get_tail(state', call'.handle).result = Ok(tail_new))]_vars
  /\ [](\A h \in DOMAIN state.ledgers :
          IsChain(state.ledgers[h], hash(Sign(state.keypair, h))))

\* C5's case: a second successful append on a handle.
C5_Witness ==
  /\ IsAppend(call.op)
  /\ call.status = "Ok"
  /\ ChainHeight(state.ledgers[call.handle]) = 2
  /\ call.ret[2] = hash(concat_bytes(call.ret[1], BlockDigest(call)))

\* C6: creating a ledger on an absent handle returns the handle, the signature
\* on the handle and the public key, and stores H(Signature(handle)), a chain
\* of height 0, which get_tail then returns.
C6_CreateAbsent ==
  [][(IsCreate(call'.op) /\ call'.handle \notin DOMAIN state.ledgers)
     => LET h == call'.handle
            sig == Sign(state.keypair, h)
        IN  /\ call'.status = "Ok"
            /\ call'.ret[1] = h
            /\ call'.ret[2] = sig
            /\ call'.ret[3] = Public(state.keypair)
            /\ DOMAIN state'.ledgers = DOMAIN state.ledgers \cup {h}
            /\ state'.ledgers[h] = hash(sig)
            /\ ChainHeight(state'.ledgers[h]) = 0
            /\ get_tail(state', h).result = Ok(hash(sig))]_vars

\* C6's case: the first call creates a ledger in the empty map.
C6_Witness ==
  /\ ncalls = 1
  /\ call.op = "create_ledger"
  /\ call.status = "Ok"
  /\ get_tail(state, call.handle).result = Ok(hash(call.ret[2]))

\* C7: the height of a present handle never decreases, an append adds
\* exactly 1 to it and a creation leaves it 0.
C7_HeightCountsAppends ==
  [][\A h \in DOMAIN state'.ledgers :
       IF h \notin DOMAIN state.ledgers
       THEN ChainHeight(state'.ledgers[h]) = 0
       ELSE IF IsAppend(call'.op) /\ call'.handle = h /\ call'.status = "Ok"
       THEN ChainHeight(state'.ledgers[h]) = ChainHeight(state.ledgers[h]) + 1
       ELSE ChainHeight(state'.ledgers[h]) = ChainHeight(state.ledgers[h])]_vars

\* C8 as stated: after any calls get_identity returns the pair of construction.
C8_IdentityOfConstruction ==
  get_endorser_key_information(state).result =
    Ok(<<Public(1), Sign(1, Public(1))>>)

\* C8 amended: get_identity always returns the public key of the current key
\* pair and that key pair's signature on it; every call but
\* create_new_endorser_state keeps key pair and identity; get_identity
\* changes no state.
C8_OneKeyPairPerEndorserState ==
  /\ [](/\ get_endorser_key_information(state).result =
             Ok(<<Public(state.keypair),
                  Sign(state.keypair, Public(state.keypair))>>)
        /\ get_endorser_key_info_from_endorser_state(state).result =
             get_endorser_key_information(state).result)
  /\ [][/\ call'.op # "create_new_endorser_state"
           => (state'.keypair = state.keypair /\ state'.id = state.id)
        /\ IsGetIdentity(call'.op)
           => (state' = state /\ call'.ret = <<state.id.pubkey, state.id.sign>>)]_vars

\* C8's case: get_identity after creations and appends on the first key pair.
C8_Witness ==
  /\ IsGetIdentity(call.op)
  /\ ncalls >= 3
  /\ signed # {}
  /\ nkeys = 1
  /\ call.ret = <<Public(1), Sign(1, Public(1))>>

\* C9: read_latest changes no state; on a present handle it returns the tail
\* and a signature on H(tail || nonce); on an absent one it fails with
\* LedgerNotFound.
C9_ReadLatest ==
  [][call'.op = "get_latest_state_for_handle"
     => /\ state' = state
        /\ IF call'.handle \in DOMAIN state.ledgers
           THEN LET tail == state.ledgers[call'.handle]
                IN  /\ call'.status = "Ok"
                    /\ call'.ret[2] = tail
                    /\ call'.ret[3] =
                         Sign(state.keypair, hash(concat_bytes(tail, call'.nonce)))
           ELSE call'.status = "Err" /\ call'.err = "LedgerNotFound"]_vars

\* C10: an append on a handle that was never created returns an error value,
\* leaves the ledger map as it was and the endorser serving.
C10_ErrorNotPanic ==
  [][(IsAppend(call'.op) /\ call'.handle \notin DOMAIN state.ledgers)
     => (/\ call'.status = "Err"
         /\ state'.ledgers = state.ledgers
         /\ alive')]_vars

------------------------------------------------------------------------------
(* The client endpoint: EndpointState::new, update_view and the operations, *)
(* one action per step between two suspension points; a block under the    *)
(* read or write lock of vs is one step.                                    *)

\* Receipts of a view-ledger entry as the coordinator sends them.
ViewQualities == Qualities

\* A faulty response is one of at most MaxFaults.
Faulty(bad) ==
  IF bad THEN faults < MaxFaults /\ faults' = faults + 1 ELSE faults' = faults

ForeignTags == {Bytes(33)}

\* EndpointState::new, lines 265-269: read_view_by_index(1).unwrap(), id is
\* the digest of that block, set_group_identity.
NewReadGenesis ==
  /\ ep.pc = "new_id"
  /\ \/ /\ ep' = [ep EXCEPT !.pc = "panic"]
        /\ faults < MaxFaults
        /\ faults' = faults + 1
     \/ /\ LET id == BlockHash(ViewBlock(GenesisIndex(coord.vheight)))
           IN  ep' = [ep EXCEPT !.pc = "new_tail", !.id = id,
                                !.vs = set_group_identity(@, id)]
        /\ UNCHANGED faults
  /\ UNCHANGED <<coord, task, nops, acked, evars>>

\* EndpointState::new, lines 271-273: read_view_tail().unwrap(),
\* apply_view_change with the attestations, assert!(res.is_ok()).
NewReadTail ==
  /\ ep.pc = "new_tail"
  /\ \/ /\ ep' = [ep EXCEPT !.pc = "panic"]
        /\ faults < MaxFaults
        /\ faults' = faults + 1
     \/ \E q \in ViewQualities :
          LET r == apply_view_change(ep.vs, [index |-> coord.vheight, quality |-> q])
          IN  /\ ep' = IF r.ok
                       THEN [ep EXCEPT !.pc = "new_loop", !.vs = r.vs,
                                       !.index = coord.vheight - 1]
                       ELSE [ep EXCEPT !.pc = "panic"]
              /\ Faulty(q # "good")
  /\ UNCHANGED <<coord, task, nops, acked, evars>>

\* EndpointState::new, lines 275-279: for index in (1..height).rev().
NewBackfill ==
  /\ ep.pc = "new_loop"
  /\ \/ /\ ep.index < 1
        /\ ep' = [ep EXCEPT !.pc = "ready"]
        /\ UNCHANGED faults
     \/ /\ ep.index >= 1
        /\ ep' = [ep EXCEPT !.pc = "panic"]
        /\ faults < MaxFaults
        /\ faults' = faults + 1
     \/ /\ ep.index >= 1
        /\ \E q \in ViewQualities :
             LET r == apply_view_change(ep.vs, [index |-> ep.index, quality |-> q])
             IN  /\ ep' = IF r.ok
                          THEN [ep EXCEPT !.vs = r.vs, !.index = @ - 1]
                          ELSE [ep EXCEPT !.pc = "panic"]
                 /\ Faulty(q # "good")
  /\ UNCHANGED <<coord, task, nops, acked, evars>>

\* An operation returns to its caller.
Returned(now, result) ==
  [IdleTask EXCEPT !.op = now.op, !.handle = now.handle, !.tag = now.tag,
                   !.counter = now.counter, !.nonce = now.nonce,
                   !.first = now.first, !.last = now.last,
                   !.nverify = now.nverify, !.nrefresh = now.nrefresh,
                   !.result = result]

FinishAs(t, now, result) ==
  /\ task' = [task EXCEPT ![t] = Returned(now, result)]
  /\ acked' = IF result.status = "Ok" /\ now.op \in {"new_counter", "increment_counter"}
              THEN acked \cup {[op |-> now.op, handle |-> now.handle,
                                tag |-> now.tag, counter |-> now.counter]}
              ELSE acked

Finish(t, result) == FinishAs(t, task[t], result)

\* A task aborts on an unwrap of an Err.
Panics(t, error) ==
  /\ task' = [task EXCEPT ![t] = [Returned(@, Panic(error)) EXCEPT !.pc = "panic"]]
  /\ UNCHANGED acked

\* new_counter lines 365-382, increment_counter lines 463-479: the block is
\* built and signed; read_counter sends handle and nonce.
StartOp(t) ==
  /\ ep.pc = "ready"
  /\ task[t].pc = "idle"
  /\ nops < MaxOps
  /\ nops' = nops + 1
  /\ \E h \in ClientHandles :
       \/ \E tag \in NewTags :
            task' = [task EXCEPT ![t] =
                       [IdleTask EXCEPT !.pc = "rpc", !.op = "new_counter", !.handle = h,
                                        !.tag = tag,
                                        !.block = RequestBlock(ep.id, h, 0, tag)]]
       \/ \E tag \in Tags, c \in ExpectedCounters :
            task' = [task EXCEPT ![t] =
                       [IdleTask EXCEPT !.pc = "rpc", !.op = "increment_counter",
                                        !.handle = h, !.tag = tag, !.counter = c,
                                        !.block = RequestBlock(ep.id, h, c, tag)]]
       \/ \E n \in ClientNonces :
            task' = [task EXCEPT ![t] =
                       [IdleTask EXCEPT !.pc = "rpc", !.op = "read_counter",
                                        !.handle = h, !.nonce = n]]
  /\ UNCHANGED <<ep, coord, faults, acked, evars>>

\* Connection::new_ledger, append, read_latest: the call fails.
RpcFail(t) ==
  /\ task[t].pc = "rpc"
  /\ Finish(t, Err(RpcError(task[t].op)))
  /\ faults < MaxFaults
  /\ faults' = faults + 1
  /\ UNCHANGED <<ep, coord, nops, evars>>

\* The coordinator serves new_ledger: a handle is created once.
RpcNewLedger(t) ==
  /\ task[t].pc = "rpc"
  /\ task[t].op = "new_counter"
  /\ LET h == task[t].handle
     IN  IF coord.counters[h] # <<>>
         THEN /\ Finish(t, Err(RpcError(task[t].op)))
              /\ UNCHANGED <<coord, faults>>
         ELSE \E q \in Qualities :
                /\ coord' = [coord EXCEPT !.counters[h] = <<task[t].block>>]
                /\ task' = [task EXCEPT ![t] =
                              [@ EXCEPT !.pc = "verify",
                                        !.resp = [view |-> coord.vheight, quality |-> q,
                                                  height |-> 0]]]
                /\ Faulty(q # "good")
                /\ UNCHANGED acked
  /\ UNCHANGED <<ep, nops, evars>>

\* The coordinator serves append: only at the next height of the ledger.
RpcAppend(t) ==
  /\ task[t].pc = "rpc"
  /\ task[t].op = "increment_counter"
  /\ LET h == task[t].handle
         expected_height == AppendHeight(task[t].counter)
     IN  IF coord.counters[h] = <<>> \/ Len(coord.counters[h]) # expected_height
         THEN /\ Finish(t, Err(RpcError(task[t].op)))
              /\ UNCHANGED <<coord, faults>>
         ELSE \E q \in Qualities :
                /\ coord' = [coord EXCEPT !.counters[h] = Append(@, task[t].block)]
                /\ task' = [task EXCEPT ![t] =
                              [@ EXCEPT !.pc = "verify",
                                        !.resp = [view |-> coord.vheight, quality |-> q,
                                                  height |-> expected_height]]]
                /\ Faulty(q # "good")
                /\ UNCHANGED acked
  /\ UNCHANGED <<ep, nops, evars>>

\* The coordinator serves read_latest: the last block and its height.
RpcReadLatest(t) ==
  /\ task[t].pc = "rpc"
  /\ task[t].op = "read_counter"
  /\ LET h == task[t].handle
         blocks == coord.counters[h]
     IN  IF blocks = <<>>
         THEN /\ Finish(t, Err(RpcError(task[t].op)))
              /\ UNCHANGED faults
         ELSE \E q \in Qualities :
                /\ task' = [task EXCEPT ![t] =
                              [@ EXCEPT !.pc = "verify", !.block = blocks[Len(blocks)],
                                        !.resp = [view |-> coord.vheight, quality |-> q,
                                                  height |-> Len(blocks) - 1]]]
                /\ Faulty(q # "good")
                /\ UNCHANGED acked
  /\ UNCHANGED <<ep, coord, nops, evars>>

\* The position of a task that holds the lease it waited for.
Holding(pc) ==
  CASE pc = "verify" -> "verify_r"
    [] pc = "uv_start" -> "uv_start_r"
    [] pc = "verify2" -> "verify2_r"
    [] pc = "uv_apply_tail" -> "uv_apply_tail_w"
    [] OTHER -> "uv_apply_w"

\* self.vs.read() (lines 395, 325, 411 and their like in the other
\* operations): blocks while a task holds the write lease.
AcquireRead(t) ==
  /\ task[t].pc \in {"verify", "uv_start", "verify2"}
  /\ \A u \in Tasks : task[u].lease # "write"
  /\ task' = [task EXCEPT ![t] = [@ EXCEPT !.pc = Holding(@), !.lease = "read"]]
  /\ UNCHANGED <<ep, coord, nops, faults, acked, evars>>

\* self.vs.write() (lines 333, 344): blocks while any task holds a lease.
AcquireWrite_shared(t) ==
  /\ task[t].pc \in {"uv_apply_tail", "uv_apply"}
  /\ \A u \in Tasks : task[u].lease # "write"
  /\ task' = [task EXCEPT ![t] = [@ EXCEPT !.pc = Holding(@), !.lease = "read"]]
  /\ UNCHANGED <<ep, coord, nops, faults, acked, evars>>

AcquireWrite(t) ==
  /\ task[t].pc \in {"uv_apply_tail", "uv_apply"}
  /\ \A u \in Tasks : task[u].lease = "none"
  /\ task' = [task EXCEPT ![t] = [@ EXCEPT !.pc = Holding(@), !.lease = "write"]]
  /\ UNCHANGED <<ep, coord, nops, faults, acked, evars>>

\* The caller drops the future of an operation that awaits a coordinator RPC
\* (lines 386, 332, 343 and their like): the operation never resumes.
Cancel(t) ==
  /\ task[t].pc \in {"rpc", "uv_tail", "uv_rpc"}
  /\ faults < MaxFaults
  /\ faults' = faults + 1
  /\ task' = [task EXCEPT ![t] =
                [Returned(@, [status |-> "cancelled", err |-> "", ret |-> <<>>])
                   EXCEPT !.pc = "cancelled"]]
  /\ UNCHANGED <<ep, coord, nops, acked, evars>>

\* The verification an operation runs on the coordinator's response.
VerifyResponse(vs, t) ==
  CASE t.op = "new_counter" -> verify_new_ledger(vs, t.resp)
    [] t.op = "increment_counter" -> verify_append(vs, t.resp)
    [] OTHER -> verify_read_latest(vs, t.resp)

\* new_counter lines 393-405, increment_counter 491-502, read_counter 559-571:
\* the first verification under the read lock, and what follows it.
VerifyFirst(t) ==
  /\ task[t].pc = "verify_r"
  /\ LET res == VerifyResponse(ep.vs, task[t])
         now == [task[t] EXCEPT !.first = res, !.last = res, !.nverify = @ + 1]
     IN  IF res = "Ok"
         THEN FinishAs(t, now, Verified(ep.id, now))
         ELSE IF RetryOn(res)
         THEN /\ task' = [task EXCEPT ![t] =
                            [now EXCEPT !.pc = "uv_start", !.lease = ReleaseRead(@)]]
              /\ UNCHANGED acked
         ELSE FinishAs(t, now, Err(FailedToVerify(now.op)))
  /\ UNCHANGED <<ep, coord, nops, faults, evars>>

\* update_view lines 324-330: start_height under the read lock.
UvStart(t) ==
  /\ task[t].pc = "uv_start_r"
  /\ task' = [task EXCEPT ![t] =
                [@ EXCEPT !.pc = "uv_tail", !.nrefresh = @ + 1,
                          !.start_height = get_view_ledger_height(ep.vs) + 1,
                          !.views0 = ep.vs.views, !.lease = ReleaseRead(@)]]
  /\ UNCHANGED <<ep, coord, nops, faults, acked, evars>>

\* update_view line 332: read_view_tail().await.unwrap().
UvTail(t) ==
  /\ task[t].pc = "uv_tail"
  /\ \/ /\ Panics(t, "FailedToReadViewLedger")
        /\ faults < MaxFaults
        /\ faults' = faults + 1
     \/ \E q \in ViewQualities :
          /\ task' = [task EXCEPT ![t] =
                        [@ EXCEPT !.pc = "uv_apply_tail", !.height = coord.vheight,
                                  !.entry = [index |-> coord.vheight, quality |-> q]]]
          /\ Faulty(q # "good")
          /\ UNCHANGED acked
  /\ UNCHANGED <<ep, coord, nops, evars>>

\* Where update_view goes after an apply: the next index of
\* (start_height..height).rev(), or back to the operation.
AfterApply_stop(index, start_height) == "verify2"

AfterApply(index, start_height) ==
  IF index < start_height THEN "verify2" ELSE "uv_rpc"

\* update_view lines 333-340: the tail is applied under the write lock.
UvApplyTail(t) ==
  /\ task[t].pc = "uv_apply_tail_w"
  /\ LET r == apply_view_change(ep.vs, task[t].entry)
     IN  IF r.ok
         THEN /\ ep' = [ep EXCEPT !.vs = r.vs]
              /\ task' = [task EXCEPT ![t] =
                            [@ EXCEPT !.index = task[t].height - 1,
                                      !.lease = "none",
                                      !.pc = AfterApply(task[t].height - 1,
                                                        task[t].start_height)]]
              /\ UNCHANGED acked
         ELSE /\ Finish(t, Err(FailedToVerify(task[t].op)))
              /\ UNCHANGED ep
  /\ UNCHANGED <<coord, nops, faults, evars>>

\* update_view line 343: read_view_by_index(index).await.unwrap().
UvRpc(t) ==
  /\ task[t].pc = "uv_rpc"
  /\ \/ /\ Panics(t, "FailedToReadViewLedger")
        /\ faults < MaxFaults
        /\ faults' = faults + 1
     \/ \E q \in ViewQualities :
          /\ task' = [task EXCEPT ![t] =
                        [@ EXCEPT !.pc = "uv_apply",
                                  !.entry = [index |-> task[t].index, quality |-> q]]]
          /\ Faulty(q # "good")
          /\ UNCHANGED acked
  /\ UNCHANGED <<ep, coord, nops, evars>>

\* update_view lines 344-351: an intermediate view is applied under the write lock.
UvApply(t) ==
  /\ task[t].pc = "uv_apply_w"
  /\ LET r == apply_view_change(ep.vs, task[t].entry)
     IN  IF r.ok
         THEN /\ ep' = [ep EXCEPT !.vs = r.vs]
              /\ task' = [task EXCEPT ![t] =
                            [@ EXCEPT !.index = @ - 1,
                                      !.lease = "none",
                                      !.pc = AfterApply(task[t].index - 1,
                                                        task[t].start_height)]]
              /\ UNCHANGED acked
         ELSE /\ Finish(t, Err(FailedToVerify(task[t].op)))
              /\ UNCHANGED ep
  /\ UNCHANGED <<coord, nops, faults, evars>>

\* new_counter lines 410-420, increment_counter 507-517, read_counter 576-587:
\* the second verification under a new read lock.
VerifySecond(t) ==
  /\ task[t].pc = "verify2_r"
  /\ LET res == VerifyResponse(ep.vs, task[t])
         now == [task[t] EXCEPT !.last = res, !.nverify = @ + 1]
     IN  IF SecondVerifyOk(res)
         THEN FinishAs(t, now, Verified(ep.id, now))
         ELSE FinishAs(t, now, Err(FailedToVerify(now.op)))
  /\ UNCHANGED <<ep, coord, nops, faults, evars>>

\* The coordinator appends a view to the view ledger.
ViewChange ==
  /\ coord.vheight < MaxViews
  /\ coord' = [coord EXCEPT !.vheight = @ + 1]
  /\ UNCHANGED <<ep, task, nops, faults, acked, evars>>

\* Another writer creates a counter or appends to one: a block with its own
\* signature, or a bare tag.
ForeignWrite ==
  /\ nops < MaxOps
  /\ nops' = nops + 1
  /\ \E h \in ClientHandles, tag \in ForeignTags :
       LET height == Len(coord.counters[h])
           id == BlockHash(ViewBlock(1))
       IN  \E block \in {tag, concat_bytes(tag, Sign(ForeignKey, WriterMsg(id, h, height, tag)))} :
             coord' = [coord EXCEPT !.counters[h] = Append(@, block)]
  /\ UNCHANGED <<ep, task, faults, acked, evars>>

ClientNext ==
  \/ NewReadGenesis
  \/ NewReadTail
  \/ NewBackfill
  \/ ViewChange
  \/ ForeignWrite
  \/ \E t \in Tasks :
       \/ StartOp(t)
       \/ RpcFail(t)
       \/ RpcNewLedger(t)
       \/ RpcAppend(t)
       \/ RpcReadLatest(t)
       \/ AcquireRead(t)
       \/ AcquireWrite(t)
       \/ Cancel(t)
       \/ VerifyFirst(t)
       \/ UvStart(t)
       \/ UvTail(t)
       \/ UvApplyTail(t)
       \/ UvRpc(t)
       \/ UvApply(t)
       \/ VerifySecond(t)

SpecClient == Init /\ [][ClientNext]_vars

SpecConcurrent == InitConcurrent /\ [][ClientNext]_vars

------------------------------------------------------------------------------
(* Properties of the client endpoint *)

Ops == {"new_counter", "increment_counter", "read_counter"}

\* The operation of task t has returned to its caller.
HasReturned(t) == task[t].pc = "idle" /\ task[t].op \in Ops

\* The operation of task t has ended, by returning or by aborting.
HasEnded(t) == task[t].pc \in {"idle", "panic"} /\ task[t].op \in Ops

\* C11: an operation whose first verification fails with ViewNotFound makes
\* exactly one refresh and one further verification; it succeeds only when
\* that second verification does, and when the refresh or the second
\* verification fails it returns its FailedToVerify* error; there is never a
\* second refresh or a third verification.
C11_OneRefreshOneReverify ==
  \A t \in Tasks :
    /\ task[t].nrefresh <= 1
    /\ task[t].nverify <= 2
    /\ task[t].nverify = 2 => task[t].nrefresh = 1
    /\ task[t].nrefresh = 1 => task[t].first = "ViewNotFound"
    /\ (HasEnded(t) /\ task[t].first = "ViewNotFound") =>
         /\ task[t].nrefresh = 1
         /\ \/ task[t].nverify = 2 /\ task[t].last = "Ok"
            \/ task[t].result = Err(FailedToVerify(task[t].op))

\* C18: a failed coordinator RPC of an operation, those of update_view
\* included, ends the operation with a FailedTo* error value; no operation
\* aborts.
C18_RpcFailureIsAnError ==
  \A t \in Tasks :
    /\ task[t].pc # "panic"
    /\ (HasReturned(t) /\ task[t].result.status = "Err") =>
         task[t].result.err \in {RpcError(task[t].op), FailedToVerify(task[t].op)}

\* C12: a first verification that fails with an error other than
\* ViewNotFound ends the operation in that step with its FailedToVerify*
\* error: no update_view, no second verification, VS as it was.
C12_OnlyViewNotFoundRetried ==
  [][\A t \in Tasks :
       (task[t].pc = "verify_r" /\ task'[t] # task[t]
        /\ task'[t].first \notin {"Ok", "ViewNotFound"}) =>
         /\ task'[t].pc = "idle"
         /\ task'[t].result = Err(FailedToVerify(task[t].op))
         /\ task'[t].nrefresh = 0
         /\ task'[t].nverify = 1
         /\ ep' = ep]_vars

\* C12 witness: an operation returned after a first verification that failed
\* with InsufficientReceipts.
C12_Witness ==
  \E t \in Tasks :
    HasReturned(t) /\ task[t].first = "InsufficientReceipts" /\ task[t].nrefresh = 0

\* The response signature an operation handed to its caller, if any.
ResponseSignature(t) ==
  IF task[t].result.ret = <<>> THEN NoBytes
  ELSE task[t].result.ret[Len(task[t].result.ret)]

SignedByClient(block, msgtype, id, handle, counter) ==
  /\ Len(block) >= 1
  /\ block[Len(block)] =
       Sign(ClientKey,
            NimbleDigest_digest(<< <<"f", 1, U64(msgtype)>>, <<"f", 2, id>>,
                                   <<"f", 3, handle>>, <<"f", 4, U64(counter)>>,
                                   <<"f", 5, SubSeq(block, 1, Len(block) - 1)>> >>))[1]

\* C16: a read_counter whose receipts verified succeeds exactly when the
\* block is tag || signature of the endpoint's key over the NewCounterReq
\* message at height 0, the IncrementCounterReq message above it; then it
\* returns that tag and height, otherwise its error and no signature.
C16_ReadAuthenticatesWriter ==
  [][\A t \in Tasks :
       (task[t].op = "read_counter" /\ task[t].pc \in {"verify_r", "verify2_r"}
        /\ task'[t].pc = "idle" /\ task'[t].last = "Ok") =>
         LET block == task[t].block
             counter == task[t].resp.height
             msgtype == IF counter = 0 THEN MessageType_NewCounterReq
                        ELSE MessageType_IncrementCounterReq
             res == task'[t].result
         IN  IF SignedByClient(block, msgtype, ep.id, task[t].handle, counter)
             THEN /\ res.status = "Ok"
                  /\ res.ret[1] = SubSeq(block, 1, Len(block) - 1)
                  /\ res.ret[2] = U64(counter)
             ELSE res = Err("FaieldToVerifyReadCounter")]_vars

\* C16 witness: reads have returned a counter above 0 written by the
\* endpoint's key.
C16_Witness ==
  \E t \in Tasks :
    /\ HasReturned(t)
    /\ task[t].op = "read_counter"
    /\ task[t].result.status = "Ok"
    /\ task[t].result.ret[2] # U64(0)

\* C17 as stated: the group identity is the digest of the view-ledger entry
\* at index 0.
C17_IdentityIsIndexZero ==
  ep.id # NoBytes => ep.id = BlockHash(ViewBlock(0))

\* C17 amended: the group identity is the digest of the view-ledger entry at
\* index 1, set by new() before any view is applied and the same ever after.
C17_IdentityIsIndexOne ==
  /\ ep.id # NoBytes => ep.id = BlockHash(ViewBlock(1))
  /\ ep.vs.group_identity = ep.id
  /\ ep.vs.views # {} => ep.id # NoBytes
  /\ ep.pc \in {"new_tail", "new_loop", "ready"} => ep.id # NoBytes

\* C17 witness: the endpoint started on a view ledger of height 2 or more,
\* has refreshed its views and served an operation.
C17_Witness ==
  /\ ep.pc = "ready"
  /\ ep.id = BlockHash(ViewBlock(1))
  /\ \E t \in Tasks : HasReturned(t) /\ task[t].nrefresh = 1 /\ task[t].result.status = "Ok"

\* The acknowledged operations of kind op on handle.
Acked(op, handle) == {a \in acked : a.op = op /\ a.handle = handle}

\* The last block of the ledger of handle is the one operation a wrote.
IsLastWrite(a) ==
  LET blocks == coord.counters[a.handle]
  IN  /\ blocks # <<>>
      /\ blocks[Len(blocks)] = RequestBlock(ep.id, a.handle, a.counter, a.tag)

\* C14: after a new_counter(handle, tag) that succeeded and no later write, a
\* read_counter(handle, nonce) that returns yields (tag, 0, sig) with sig the
\* endpoint's signature over the ReadCounterResp message of the group
\* identity, handle, height 0, tag and nonce; it returns an error only in a
\* run with a fault.
C14_NewThenRead ==
  \A t \in Tasks :
    (HasReturned(t) /\ task[t].op = "read_counter") =>
      \A a \in Acked("new_counter", task[t].handle) :
        IsLastWrite(a) =>
          /\ faults = 0 => task[t].result.status = "Ok"
          /\ task[t].result.status = "Ok" =>
               task[t].result.ret =
                 <<a.tag, U64(0),
                   Sign(ClientKey,
                        NimbleDigest_digest(
                          << <<"f", 1, U64(MessageType_ReadCounterResp)>>, <<"f", 2, ep.id>>,
                             <<"f", 3, task[t].handle>>, <<"f", 4, U64(0)>>,
                             <<"f", 5, a.tag>>, <<"f", 6, task[t].nonce>> >>))>>

\* C14 witness: a read_counter has returned the counter a new_counter made.
C14_Witness ==
  \E t \in Tasks :
    /\ HasReturned(t)
    /\ task[t].op = "read_counter"
    /\ task[t].result.status = "Ok"
    /\ \E a \in Acked("new_counter", task[t].handle) : IsLastWrite(a)

\* C15: a read_counter that returns after an acknowledged
\* increment_counter(handle, t1, c), with no later write, yields (t1, c, _);
\* an increment_counter whose expected_counter was acknowledged before on the
\* handle returns FailedToIncrementCounter and no signature; an
\* increment_counter succeeds only above every expected_counter acknowledged
\* before on the handle.
C15_IncrementThenRead ==
  [][\A t \in Tasks :
       (task[t].pc \notin {"idle", "off"} /\ task'[t].pc = "idle") =>
         LET op == task'[t].op
             h == task'[t].handle
             res == task'[t].result
         IN  /\ op = "read_counter" =>
                  \A a \in Acked("increment_counter", h) :
                    IsLastWrite(a) =>
                      /\ faults' = 0 => res.status = "Ok"
                      /\ res.status = "Ok" =>
                           res.ret[1] = a.tag /\ res.ret[2] = U64(a.counter)
             /\ op = "increment_counter" =>
                  \A a \in Acked("increment_counter", h) :
                    /\ a.counter = task'[t].counter =>
                         res = Err("FailedToIncrementCounter")
                    /\ res.status = "Ok" => a.counter < task'[t].counter]_vars

\* C15 witness: an increment_counter with an expected_counter acknowledged
\* before on the handle has been refused.
C15_Witness ==
  \E t \in Tasks :
    /\ HasReturned(t)
    /\ task[t].op = "increment_counter"
    /\ task[t].result = Err("FailedToIncrementCounter")
    /\ faults = 0
    /\ \E a \in Acked("increment_counter", task[t].handle) : a.counter = task[t].counter

\* The views installed in VS are the first k entries of the view ledger.
GapFreePrefix(vs) == \E k \in 0..coord.vheight : vs.views = 1..k

\* C19: with a view ledger that grows to view 2 at any moment of a
\* new_counter, and no fault, a new_counter the coordinator served ends in
\* success, either on its first verification or, after ViewNotFound, on the
\* verification that follows the one update_view; when it returns, with or
\* without a fault, the views in VS are a gap-free prefix of the view ledger.
C19_ViewChangeInFlight ==
  \A t \in Tasks :
    (HasReturned(t) /\ task[t].op = "new_counter" /\ coord.vheight <= 2) =>
      /\ GapFreePrefix(ep.vs)
      /\ (faults = 0 /\ task[t].nverify >= 1) =>
           /\ task[t].result.status = "Ok"
           /\ \/ /\ task[t].first = "Ok"
                 /\ task[t].nverify = 1
                 /\ task[t].nrefresh = 0
              \/ /\ task[t].first = "ViewNotFound"
                 /\ task[t].nrefresh = 1
                 /\ task[t].nverify = 2
                 /\ task[t].last = "Ok"
                 /\ ep.vs.views = {1, 2}

\* C19 witness: a new_counter started at view 1 met view 2, refreshed and
\* succeeded.
C19_Witness ==
  \E t \in Tasks :
    /\ HasReturned(t)
    /\ task[t].op = "new_counter"
    /\ task[t].result.status = "Ok"
    /\ task[t].first = "ViewNotFound"
    /\ faults = 0
    /\ coord.vheight = 2
    /\ ep.vs.views = {1, 2}

------------------------------------------------------------------------------
(* Properties of the endorser at the largest height *)

\* The ledger of handle is 2^64 - 1 appends above its genesis.
AtMaxHeight(self, handle) ==
  handle \in DOMAIN self.ledgers /\ self.ledgers[handle] = ElidedChain(handle)

\* C20: an append to a ledger at height 2^64 - 1 fails with
\* LedgerHeightOverflow and leaves the ledger as it was.
C20_OverflowRejected ==
  [][\A h \in Handles :
       (ncalls' = ncalls + 1 /\ IsAppend(call'.op) /\ call'.handle = h
        /\ AtMaxHeight(state, h)) =>
         /\ call'.status = "Err"
         /\ call'.err = "LedgerHeightOverflow"
         /\ state'.ledgers = state.ledgers]_vars

\* C21: a create_ledger whose handle is not 32 bytes long fails with
\* InvalidLedgerName and inserts nothing into the ledger map.
C21_InvalidLedgerName ==
  [][(ncalls' = ncalls + 1 /\ IsCreate(call'.op) /\ NumBytes(call'.handle) # 32) =>
       /\ call'.status = "Err"
       /\ call'.err = "InvalidLedgerName"
       /\ state'.ledgers = state.ledgers]_vars

\* The create_ledger and append_ledger calls on one handle.
HandleOps(h) ==
  {[op |-> "create_ledger", handle |-> h, data |-> NoBytes]}
    \cup {[op |-> "append_ledger", handle |-> h, data |-> b] : b \in Blocks}

\* The EndorserState after one such call.
After(self, o) ==
  IF o.op = "create_ledger"
  THEN create_ledger(self, o.handle).self
  ELSE append_ledger(self, o.handle, o.data).self

\* Two ledger maps agree on every handle but h.
SameBut(m1, m2, h) ==
  /\ DOMAIN m1 \ {h} = DOMAIN m2 \ {h}
  /\ \A g \in DOMAIN m1 \ {h} : m1[g] = m2[g]

\* C26: from every reachable state, a create_ledger or append_ledger on one
\* handle changes at most the entry of that handle, and calls on two
\* distinct handles leave the same ledger map in either order.
C26_HandlesIndependent ==
  \A h1 \in Handles :
    \A h2 \in Handles \ {h1} :
      \A o1 \in HandleOps(h1), o2 \in HandleOps(h2) :
      /\ SameBut(state.ledgers, After(state, o1).ledgers, h1)
      /\ After(After(state, o1), o2).ledgers = After(After(state, o2), o1).ledgers

\* C26 witness: with both handles in the ledger map, an append to one of them
\* has succeeded.
C26_Witness ==
  /\ Handles \subseteq DOMAIN state.ledgers
  /\ call.op = "append_ledger"
  /\ call.status = "Ok"
  /\ \E h \in Handles \ {call.handle} : ChainHeight(state.ledgers[h]) >= 1

------------------------------------------------------------------------------
(* Properties of the canonical messages *)

\* The message-type code in the message under a signature: the number in the
\* 8-byte little-endian first field.
MsgTypeOf(signature) == signature[1][3][1][3][1][3][1][2]

\* The signature at the end of a block is the endpoint's.
ClientSigned(block) ==
  /\ block # <<>>
  /\ block[Len(block)][1] = "S"
  /\ block[Len(block)][2] = ClientKey

\* The codes in the blocks the endpoint wrote and the reads it answered are
\* new for NewCounterReq, inc for IncrementCounterReq, read for
\* ReadCounterResp.
MsgTypeCodes(new, inc, read) ==
  /\ \A h \in ClientHandles :
       \A i \in 1..Len(coord.counters[h]) :
         LET block == coord.counters[h][i]
         IN  ClientSigned(block) =>
               MsgTypeOf(<<block[Len(block)]>>) = IF i = 1 THEN new ELSE inc
  /\ \A t \in Tasks :
       (HasReturned(t) /\ task[t].op = "read_counter" /\ task[t].result.status = "Ok") =>
         MsgTypeOf(task[t].result.ret[3]) = read

\* C25 as stated: the codes are 1 for NewCounterReq, 3 for
\* IncrementCounterReq and 6 for ReadCounterResp.
C25_CodesOneThreeSix == MsgTypeCodes(1, 3, 6)

\* C25 amended: the codes are 0 for NewCounterReq, 2 for IncrementCounterReq
\* and 5 for ReadCounterResp, each hashed as an 8-byte little-endian integer.
C25_CodesZeroTwoFive == MsgTypeCodes(0, 2, 5)

\* C25 witness: the endpoint has created and incremented a counter and
\* answered a read of it.
C25_Witness ==
  /\ \E h \in ClientHandles :
       /\ Len(coord.counters[h]) >= 2
       /\ \A i \in 1..2 : ClientSigned(coord.counters[h][i])
  /\ \E t \in Tasks :
       HasReturned(t) /\ task[t].op = "read_counter" /\ task[t].result.status = "Ok"


\* ---------------------------------------------------------------------------
\* The lock on the verifier state.

ReadWaiting == {"verify", "uv_start", "verify2"}
WriteWaiting == {"uv_apply_tail", "uv_apply"}
ReadHolding == {"verify_r", "uv_start_r", "verify2_r"}
WriteHolding == {"uv_apply_tail_w", "uv_apply_w"}

\* Some task can take a step on the lock: acquire the lease it waits for, or
\* run the block of the lease it holds (which releases it).
LockStepEnabled ==
  \E u \in Tasks :
    ENABLED (AcquireRead(u) \/ AcquireWrite(u) \/ VerifyFirst(u) \/ UvStart(u)
               \/ UvApplyTail(u) \/ UvApply(u) \/ VerifySecond(u))

\* C23: a task that saw ViewNotFound has released its read lease before it
\* asks for the write lease, and verifies again under a read lease acquired
\* afresh; no task holds a read lease while it waits for or holds the write
\* lease; and whenever a task waits for or holds a lease, some task can take
\* its next step on the lock (no deadlock), with two operations in flight.
C23_ReadReleasedBeforeWrite ==
  \A t \in Tasks :
    /\ task[t].pc \in WriteWaiting => task[t].lease = "none"
    /\ task[t].pc \in WriteHolding => task[t].lease = "write"
    /\ task[t].pc \in ReadWaiting => task[t].lease = "none"
    /\ task[t].pc \in ReadHolding => task[t].lease = "read"
    /\ task[t].lease # "none" => task[t].pc \in ReadHolding \cup WriteHolding
    /\ task[t].lease = "write" => \A u \in Tasks \ {t} : task[u].lease = "none"
    /\ task[t].pc \in ReadWaiting \cup WriteWaiting \cup ReadHolding \cup WriteHolding
         => LockStepEnabled

\* C23 witness: one task verifies again under a fresh read lease after its
\* refresh while the other, which also saw ViewNotFound, waits for the write
\* lease holding nothing.
C23_Witness ==
  \E t \in Tasks : \E u \in Tasks \ {t} :
    /\ task[t].pc = "verify2_r" /\ task[t].lease = "read" /\ task[t].nrefresh = 1
    /\ task[u].pc \in WriteWaiting /\ task[u].lease = "none"
    /\ task[u].first = "ViewNotFound"
    /\ ~ ENABLED AcquireWrite(u)

\* C24: verification is pure with respect to the verifier state: a
\* verification step, whatever its outcome, and the abandonment of an
\* operation leave the verifier state as it was; once the endpoint is
\* constructed, the verifier state changes only by apply_view_change run by a
\* task that holds the write lease.
C24_VerificationIsPure ==
  [][/\ \A t \in Tasks :
          (task[t].pc \in {"verify_r", "verify2_r"} /\ task'[t] # task[t])
            => ep'.vs = ep.vs
     /\ \A t \in Tasks :
          (task[t].pc # "cancelled" /\ task'[t].pc = "cancelled") => ep'.vs = ep.vs
     /\ (ep.pc = "ready" /\ ep'.vs # ep.vs) =>
          \E t \in Tasks :
            /\ task[t].lease = "write"
            /\ task[t].pc \in WriteHolding
            /\ task'[t].lease = "none"
            /\ ep'.vs = apply_view_change(ep.vs, task[t].entry).vs]_vars

\* C24 witness: an operation was abandoned right after a verification that
\* ended in ViewNotFound, and the verifier state still holds exactly the views
\* that earlier refreshes installed under the write lease.
C24_Witness ==
  /\ task[1].pc = "cancelled"
  /\ task[1].nverify = 1
  /\ task[1].first = "ViewNotFound"
  /\ ep.vs.views = {1, 2}
  /\ coord.vheight = 3

\* ---------------------------------------------------------------------------
\* Refreshing the views.

\* The positions of a task inside the back-fill loop of update_view.
Backfilling == {"uv_rpc", "uv_apply", "uv_apply_w"}

\* The tail was applied first, and the views applied since are exactly those
\* from the tail down to the loop's index, one step at a time.
TailThenDescending(t) ==
  task[t].pc \in Backfilling =>
    /\ task[t].start_height <= task[t].index
    /\ task[t].index < task[t].height
    /\ (task[t].index + 1) .. task[t].height \subseteq ep.vs.views

\* The refresh of task t has succeeded.
Refreshed(t) == task[t].pc \in {"verify2", "verify2_r"}

\* C22: a refresh reads the tail at height H and applies it first, then
\* applies the views below H in strictly descending order; when it has
\* succeeded the verifier state holds every view 1..H. The bootstrap in new
\* leaves every view 1..H installed as well.
C22_RefreshInstallsEveryView ==
  /\ \A t \in Tasks : TailThenDescending(t)
  /\ \A t \in Tasks : Refreshed(t) => 1 .. task[t].height \subseteq ep.vs.views
  /\ (ep.pc = "ready" /\ nops = 0 /\ \A t \in Tasks : task[t].nrefresh = 0)
       => \E k \in 1 .. MaxViews : ep.vs.views = 1 .. k

\* The positions of a task inside update_view after its first block.
InRefresh == {"uv_tail", "uv_apply_tail", "uv_apply_tail_w"} \cup Backfilling

\* C27: no partial view state survives an interrupted refresh: when a refresh
\* that has started stops with an error, aborts or is cancelled, the task
\* holds no lease and the verifier state holds the views it held when the
\* refresh started.
C27_NoPartialRefresh ==
  [][\A t \in Tasks :
       (task[t].pc \in InRefresh /\ task'[t].pc \in {"idle", "panic", "cancelled"})
         => /\ task'[t].lease = "none"
            /\ ep'.vs.views = task[t].views0]_vars

\* No task is inside update_view: every refresh that started has finished.
NoRefreshRunning ==
  \A t \in Tasks : task[t].pc \notin InRefresh \cup {"uv_start", "uv_start_r"}

====
